---- MODULE Spec2Model ----
(***************************************************************************)
(* Interaction model of the iTwinUI-react Slider thumbs and of the         *)
(* advanced ColorPicker (color field, hue strip).                          *)
(*                                                                         *)
(* Numbers: slider values are counted in units of the smallest increment   *)
(* (a step of 0.25 over 0..5 is step 1 over 0..20), pointer coordinates    *)
(* are pixels, color-field coordinates are whole percentages.              *)
(***************************************************************************)
EXTENDS Integers, Sequences, FiniteSets, TLC

VARIABLES
  \* ---- Slider (RangeInteractionModel) ----
  sliderMin,         \* ValueRange.min
  sliderMax,         \* ValueRange.max
  step,              \* ValueRange.step
  thumbMode,         \* "no-crossing" | "allow-crossing"
  thumbSet,          \* thumb index (0-based) -> value
  activeThumbIndex,  \* index of the active thumb, or undefined
  emitted,           \* notifications fired by the last slider handler, in order
  lastOp,            \* the last slider handler that ran and its inputs
  \* ---- ColorPicker (PlanarColorInteractionModel) ----
  dotColor,          \* fillColor(...) of the selected color
  squareColor,       \* fillColor(...) of the pure hue of the field
  sliderValue,       \* position of the hue strip thumb, 0..100
  squareTop,         \* y of the dot in the field, percent
  squareLeft,        \* x of the dot in the field, percent
  activeDotIndex,    \* 1 while the dot is dragged, else undefined
  hueThumbActive,    \* the hue strip's thumb is being dragged
  notified,          \* callbacks fired by the last color handler, in order
  events,            \* callbacks and (de)activations of the current field
                     \* interaction, in order, since its pointer-down
  colorOp,           \* the last color handler that ran and its inputs
  keySteps,          \* number of dot key presses so far
  \* ---- ColorPicker palette ----
  paletteProps,      \* colors: swatch index (0-based) -> color; columns of
                     \* the wrapped grid
  focusedColor,      \* index of the focus target, or undefined (null)
  activeElement,     \* index of the swatch that holds the document's
                     \* focus, or undefined when no swatch holds it
  activeColor,       \* the ColorValue the palette marks as active
  paletteNotified,   \* callbacks fired by the last palette handler
  paletteOp,         \* the last palette handler that ran and its inputs
  \* ---- ColorPicker color input ----
  builderProps,      \* defaultColorInputType: the prop, or "unset"
  inputType,         \* 'HEX' | 'HSL' | 'RGB' | 'NONE'
  swaps,             \* number of onSwapColorType calls so far
  \* ---- conversions ----
  probe              \* the last conversion applied and its arguments

sliderVars == <<sliderMin, sliderMax, step, thumbMode, thumbSet,
                activeThumbIndex, emitted, lastOp>>
colorVars == <<dotColor, squareColor, sliderValue, squareTop, squareLeft,
               activeDotIndex, hueThumbActive, notified, events, colorOp,
               keySteps>>
paletteVars == <<paletteProps, focusedColor, activeElement, activeColor,
                 paletteNotified, paletteOp>>
inputVars == <<builderProps, inputType, swaps>>
vars == <<sliderVars, colorVars, paletteVars, inputVars, probe>>

\* ---------------------------------------------------------------- bounds
MaxValue == 3        \* largest slider max explored
MaxMin == 1          \* largest slider min explored
MaxStep == 2         \* largest step explored
MaxThumbs == 2       \* largest number of thumbs explored
MaxPointer == 5      \* pointer coordinates run over -1..MaxPointer

\* ------------------------------------------------------------- utilities
undefined == -1

Min(a, b) == IF a < b THEN a ELSE b
Max(a, b) == IF a > b THEN a ELSE b

\* utils getBoundedValue(val, min, max)
getBoundedValue(val, lo, hi) == Min(hi, Max(lo, val))

\* Math.round of the non-negative rational num/den: nearest, ties up
RoundDiv(num, den) == (2 * num + den) \div (2 * den)

\* the bounding rectangles a track can report at the time of an event
TrackRects == { [left |-> 0, width |-> 4], [left |-> 1, width |-> 3] }
PointerCoords == (0 - 1) .. MaxPointer

Keys == {"ArrowLeft", "ArrowRight", "Home", "End", "Tab"}

\* ------------------------------------------------------- Slider: helpers
ThumbCount == Cardinality(DOMAIN thumbSet)

\* positionToValue that truncates to the step below instead of rounding
positionToValueFloor(p, rect, lo, hi, st) ==
  LET pos == getBoundedValue(p, rect.left, rect.left + rect.width)
      num == (hi - lo) * (pos - rect.left)
  IN  lo + (num \div (rect.width * st)) * st

\* positionToValue(pointerCoordinate, trackRect): interpolate across the
\* track, clamp to [min,max], round to the nearest step from min (half up).
\* The clamped interpolation is min + (max-min)*(pos-left)/width, so the
\* distance from min in steps is (max-min)*(pos-left)/(width*step).
positionToValue(p, rect, lo, hi, st) ==
  LET pos == getBoundedValue(p, rect.left, rect.left + rect.width)
      num == (hi - lo) * (pos - rect.left)
      den == rect.width
      \* clamp of the interpolated value to [lo,hi]: num/den is in [0, hi-lo]
      cnum == getBoundedValue(num, 0, (hi - lo) * den)
  IN  lo + RoundDiv(cnum, den * st) * st

\* the range a thumb may move in: the neighbours' values in no-crossing
\* mode (min/max at the ends), [min,max] in allow-crossing mode
getAllowableThumbRange(values, index, mode, lo, hi) ==
  LET n == Cardinality(DOMAIN values)
  IN  IF mode = "no-crossing"
      THEN << IF index = 0 THEN lo ELSE values[index - 1],
              IF index < n - 1 THEN values[index + 1] ELSE hi >>
      ELSE << lo, hi >>

\* moveActiveThumb that forgets the neighbours and clamps to [min,max] only
moveActiveThumbRangeOnly(values, active, rawValue, mode, lo, hi) ==
  [values EXCEPT ![active] = getBoundedValue(rawValue, lo, hi)]

\* moveActiveThumb(rawValue): the new ThumbSet
moveActiveThumb(values, active, rawValue, mode, lo, hi) ==
  LET range == getAllowableThumbRange(values, active, mode, lo, hi)
  IN  [values EXCEPT ![active] = getBoundedValue(rawValue, range[1], range[2])]

\* activate(thumbIndex): no-op when the index is out of bounds
onThumbActivated(active, index, n) ==
  IF index >= 0 /\ index < n THEN index ELSE active

\* the store half of stepActiveOrFocusedThumb: the Slider callback a Thumb
\* calls with the value its key handler computed
onThumbValueChanged(values, index, value) ==
  [values EXCEPT ![index] = value]

LiveUpdate(values) == [kind |-> "live", values |-> values]
Commit(values) == [kind |-> "commit", values |-> values]

\* --------------------------------------------------------- Thumb (code)
\* the accessibility attributes the Thumb renders on its role='slider'
\* element
ThumbAttributes(value, minVal, maxVal) ==
  [role |-> "slider",
   ariaValuemin |-> minVal,
   ariaValuenow |-> maxVal,
   ariaValuemax |-> value]

\* handlePointerDownOnThumb that reports the first thumb whatever was hit
handlePointerDownOnThumbFirst(index) == 0

\* Thumb.handlePointerDownOnThumb: the index handed to onThumbActivated
handlePointerDownOnThumb(index) == index

\* handleOnKeyDown whose ArrowRight forgets the Math.min with maxVal
handleOnKeyDownNoMax(key, value, index, st, minVal, maxVal) ==
  CASE key = "ArrowLeft"  -> << <<index, Max(value - st, minVal)>> >>
    [] key = "ArrowRight" -> << <<index, value + st>> >>
    [] key = "Home"       -> << <<index, minVal>> >>
    [] key = "End"        -> << <<index, maxVal>> >>
    [] OTHER              -> << >>

\* handleOnKeyDown with the targets of Home and End exchanged
handleOnKeyDownSwapped(key, value, index, st, minVal, maxVal) ==
  CASE key = "ArrowLeft"  -> << <<index, Max(value - st, minVal)>> >>
    [] key = "ArrowRight" -> << <<index, Min(value + st, maxVal)>> >>
    [] key = "Home"       -> << <<index, maxVal>> >>
    [] key = "End"        -> << <<index, minVal>> >>
    [] OTHER              -> << >>

\* handleOnKeyDown whose switch cases lack their `return` and fall through
handleOnKeyDownFallThrough(key, value, index, st, minVal, maxVal) ==
  LET left == << <<index, Max(value - st, minVal)>> >>
      right == << <<index, Min(value + st, maxVal)>> >>
      home == << <<index, minVal>> >>
      end == << <<index, maxVal>> >>
  IN  CASE key = "ArrowLeft"  -> left \o right \o home \o end
        [] key = "ArrowRight" -> right \o home \o end
        [] key = "Home"       -> home \o end
        [] key = "End"        -> end
        [] OTHER              -> << >>

\* Thumb.handleOnKeyDown: the onThumbValueChanged calls the key makes,
\* as <<index, value>> pairs in call order
handleOnKeyDown(key, value, index, st, minVal, maxVal) ==
  CASE key = "ArrowLeft"  -> << <<index, Max(value - st, minVal)>> >>
    [] key = "ArrowRight" -> << <<index, Min(value + st, maxVal)>> >>
    [] key = "Home"       -> << <<index, minVal>> >>
    [] key = "End"        -> << <<index, maxVal>> >>
    [] OTHER              -> << >>

\* the calls of a key handler applied in order: <<values, notifications>>
RECURSIVE ApplyCalls(_, _, _)
ApplyCalls(calls, values, out) ==
  IF calls = << >> THEN << values, out >>
  ELSE LET c == Head(calls)
           nv == onThumbValueChanged(values, c[1], c[2])
       IN  ApplyCalls(Tail(calls), nv,
                      out \o << LiveUpdate(nv), Commit(nv) >>)

\* ------------------------------------------------------- Slider: states
OnGrid(v, lo, hi, st) == v = hi \/ (v >= lo /\ v <= hi /\ (v - lo) % st = 0)

NonDecreasing(values) ==
  \A i \in DOMAIN values :
    (i + 1) \in DOMAIN values => values[i] <= values[i + 1]

\* the ThumbSets the data model allows for a range and a mode
ThumbSets(n, lo, hi, st, mode) ==
  { f \in [0 .. (n - 1) -> lo .. hi] :
      /\ \A i \in 0 .. (n - 1) : OnGrid(f[i], lo, hi, st)
      /\ mode = "no-crossing" => NonDecreasing(f) }

SliderInit ==
  /\ sliderMin \in 0 .. MaxMin
  /\ sliderMax \in 1 .. MaxValue
  /\ sliderMin < sliderMax
  /\ step \in 1 .. MaxStep
  /\ thumbMode \in {"no-crossing", "allow-crossing"}
  /\ \E n \in 1 .. MaxThumbs :
       thumbSet \in ThumbSets(n, sliderMin, sliderMax, step, thumbMode)
  /\ activeThumbIndex = undefined
  /\ emitted = << >>
  /\ lastOp = [op |-> "init"]

\* what no slider handler changes: the configuration and the color picker
ConfigUnchanged ==
  UNCHANGED <<sliderMin, sliderMax, step, thumbMode, colorVars, paletteVars,
              inputVars, probe>>

\* pointer-down on thumb `index`
ThumbPointerDown(index) ==
  /\ activeThumbIndex' =
       onThumbActivated(activeThumbIndex, handlePointerDownOnThumb(index),
                        ThumbCount)
  /\ emitted' = << >>
  /\ lastOp' = [op |-> "activate", index |-> index,
                was |-> activeThumbIndex]
  /\ UNCHANGED thumbSet
  /\ ConfigUnchanged

\* pointer-move at coordinate p while the track reports rectangle rect
SliderPointerMove(p, rect) ==
  /\ IF activeThumbIndex # undefined
     THEN LET raw == positionToValue(p, rect, sliderMin, sliderMax, step)
              nv == moveActiveThumb(thumbSet, activeThumbIndex, raw,
                                    thumbMode, sliderMin, sliderMax)
          IN  /\ thumbSet' = nv
              /\ emitted' = << LiveUpdate(nv) >>
              /\ lastOp' = [op |-> "move", raw |-> raw, p |-> p,
                            rect |-> rect, index |-> activeThumbIndex]
     ELSE /\ UNCHANGED thumbSet
          /\ emitted' = << >>
          /\ lastOp' = [op |-> "idle"]
  /\ UNCHANGED activeThumbIndex
  /\ ConfigUnchanged

\* pointer-up: commitActiveThumb
SliderPointerUp ==
  /\ IF activeThumbIndex # undefined
     THEN /\ emitted' = << Commit(thumbSet) >>
          /\ lastOp' = [op |-> "commit", index |-> activeThumbIndex]
     ELSE /\ emitted' = << >>
          /\ lastOp' = [op |-> "idle"]
  /\ activeThumbIndex' = undefined
  /\ UNCHANGED thumbSet
  /\ ConfigUnchanged

\* key press on thumb `index`
ThumbKeyDown(index, key) ==
  LET range == getAllowableThumbRange(thumbSet, index, thumbMode,
                                      sliderMin, sliderMax)
      calls == handleOnKeyDown(key, thumbSet[index], index, step,
                               range[1], range[2])
      res == ApplyCalls(calls, thumbSet, << >>)
  IN  /\ thumbSet' = res[1]
      /\ emitted' = res[2]
      /\ lastOp' = [op |-> "key", key |-> key, index |-> index,
                    changed |-> res[1] # thumbSet]
      /\ UNCHANGED activeThumbIndex
      /\ ConfigUnchanged

SliderNext ==
  \/ \E i \in DOMAIN thumbSet : ThumbPointerDown(i)
  \/ \E p \in PointerCoords, rect \in TrackRects : SliderPointerMove(p, rect)
  \/ SliderPointerUp
  \/ \E i \in DOMAIN thumbSet, key \in Keys : ThumbKeyDown(i, key)


\* ------------------------------------------------ ColorPicker: bounds
MaxKeySteps == 2     \* dot key presses explored per run
MaxEvents == 5       \* notifications recorded per field interaction

\* --------------------------------------- ColorValue (utils/color), helpers
\* A ColorValue is held as its integer RGB channels.
Abs(a) == IF a < 0 THEN 0 - a ELSE a

\* ColorValue.fromHSV: standard HSV -> RGB, channels rounded to integers
fromHSV(hsv) ==
  LET hh == hsv.h % 360
      d == Abs((hh % 120) - 60)
      hi == RoundDiv(255 * hsv.v, 100)
      mid == RoundDiv(255 * hsv.v * (hsv.s * (60 - d) + 60 * (100 - hsv.s)),
                      600000)
      lo == RoundDiv(255 * hsv.v * (100 - hsv.s), 10000)
      sector == hh \div 60
  IN  CASE sector = 0 -> [r |-> hi, g |-> mid, b |-> lo]
        [] sector = 1 -> [r |-> mid, g |-> hi, b |-> lo]
        [] sector = 2 -> [r |-> lo, g |-> hi, b |-> mid]
        [] sector = 3 -> [r |-> lo, g |-> mid, b |-> hi]
        [] sector = 4 -> [r |-> mid, g |-> lo, b |-> hi]
        [] OTHER      -> [r |-> hi, g |-> lo, b |-> mid]

\* ColorValue.toRGB
toRGB(color) == color

\* ColorValue.toHSV: standard RGB -> HSV, rounded to whole degrees/percent
toHSV(color) ==
  LET mx == Max(color.r, Max(color.g, color.b))
      mn == Min(color.r, Min(color.g, color.b))
      delta == mx - mn
      hnum == IF mx = color.r THEN 60 * (color.g - color.b)
              ELSE IF mx = color.g THEN 60 * (color.b - color.r) + 120 * delta
              ELSE 60 * (color.r - color.g) + 240 * delta
  IN  [h |-> IF delta = 0 THEN 0
             ELSE RoundDiv(hnum % (360 * delta), delta),
       s |-> IF mx = 0 THEN 0 ELSE RoundDiv(100 * delta, mx),
       v |-> RoundDiv(100 * mx, 255)]

\* ColorValue.fromHSL: standard HSL -> RGB, channels rounded to integers
fromHSL(hsl) ==
  LET hh == hsl.h % 360
      d == Abs((hh % 120) - 60)
      t == hsl.s * Min(hsl.l, 100 - hsl.l)
      hi == RoundDiv(255 * (100 * hsl.l + t), 10000)
      lo == RoundDiv(255 * (100 * hsl.l - t), 10000)
      mid == RoundDiv(255 * (60 * (100 * hsl.l - t) + 2 * t * (60 - d)),
                      600000)
      sector == hh \div 60
  IN  CASE sector = 0 -> [r |-> hi, g |-> mid, b |-> lo]
        [] sector = 1 -> [r |-> mid, g |-> hi, b |-> lo]
        [] sector = 2 -> [r |-> lo, g |-> hi, b |-> mid]
        [] sector = 3 -> [r |-> lo, g |-> mid, b |-> hi]
        [] sector = 4 -> [r |-> mid, g |-> lo, b |-> hi]
        [] OTHER      -> [r |-> hi, g |-> lo, b |-> mid]

\* ColorValue.toHSL: standard RGB -> HSL, rounded to whole degrees/percent
toHSL(color) ==
  LET mx == Max(color.r, Max(color.g, color.b))
      mn == Min(color.r, Min(color.g, color.b))
  IN  [h |-> toHSV(color).h,
       s |-> IF mx = mn THEN 0
             ELSE RoundDiv(100 * (mx - mn),
                           IF mx + mn <= 255 THEN mx + mn ELSE 510 - mx - mn),
       l |-> RoundDiv(100 * (mx + mn), 510)]

\* a HEX string is held as its six digits after the '#'
HexDigits == << "0", "1", "2", "3", "4", "5", "6", "7",
                "8", "9", "A", "B", "C", "D", "E", "F" >>
HexDigitValue(c) == (CHOOSE i \in 1 .. 16 : HexDigits[i] = c) - 1

\* ColorValue.toHexString: two digits per channel, r g b
toHexString(color) ==
  << HexDigits[(color.r \div 16) + 1], HexDigits[(color.r % 16) + 1],
     HexDigits[(color.g \div 16) + 1], HexDigits[(color.g % 16) + 1],
     HexDigits[(color.b \div 16) + 1], HexDigits[(color.b % 16) + 1] >>

\* ColorValue.fromString, for a '#rrggbb' string
fromString(hex) ==
  [r |-> 16 * HexDigitValue(hex[1]) + HexDigitValue(hex[2]),
   g |-> 16 * HexDigitValue(hex[3]) + HexDigitValue(hex[4]),
   b |-> 16 * HexDigitValue(hex[5]) + HexDigitValue(hex[6])]

\* ColorValue.toHslString: the HSL representation, whole numbers
toHslString(color) ==
  LET hsl == toHSL(color) IN << "hsl", hsl.h, hsl.s, hsl.l >>

\* ------------------------------------------------- ColorPicker (code)
\* getHorizontalPercentageOfRectangle without getBoundedValue
getHorizontalPercentageOfRectangleUnbounded(rect, pointer) ==
  ((pointer - rect.left) * 100) \div rect.width

\* getHorizontalPercentageOfRectangle
getHorizontalPercentageOfRectangle(rect, pointer) ==
  LET position == getBoundedValue(pointer, rect.left, rect.left + rect.width)
  IN  ((position - rect.left) * 100) \div rect.width

\* getVerticalPercentageOfRectangle
getVerticalPercentageOfRectangle(rect, pointer) ==
  LET position == getBoundedValue(pointer, rect.top, rect.top + rect.height)
  IN  ((position - rect.top) * 100) \div rect.height

\* fillColor that copies the green channel into blue
fillColorGreenBlue(color) ==
  [hsv |-> toHSV(color),
   hsl |-> toHSL(color),
   rgb |-> [r |-> color.r, g |-> color.g, b |-> color.g],
   hex |-> toHexString(color)]

\* fillColor: every representation of a ColorValue (the display strings,
\* which only the style attributes read, are left out)
fillColor(color) ==
  [hsv |-> toHSV(color),
   hsl |-> toHSL(color),
   rgb |-> toRGB(color),
   hex |-> toHexString(color)]

OnChange(color) == [kind |-> "live", color |-> color]
OnChangeCompleted(color) == [kind |-> "commit", color |-> color]

\* updateSlider with the hue taken as round(y * 3.6), kept below 360
updateSlider36(y, selectionChanged, dot) ==
  LET hue == Min(RoundDiv(y * 36, 10), 359)
      newSquareColor == fromHSV([h |-> hue, s |-> 100, v |-> 100])
      newDotColor == fromHSV([h |-> hue, s |-> dot.hsv.s, v |-> dot.hsv.v])
  IN  [sliderValue |-> y,
       squareColor |-> fillColor(newSquareColor),
       dotColor |-> fillColor(newDotColor),
       calls |-> IF selectionChanged
                 THEN << OnChangeCompleted(newDotColor) >>
                 ELSE << OnChange(newDotColor) >>]

\* updateSlider with a strip that ends ten degrees short of the full circle
updateSlider350(y, selectionChanged, dot) ==
  LET hue == RoundDiv(y * 350, 100)
      newSquareColor == fromHSV([h |-> hue, s |-> 100, v |-> 100])
      newDotColor == fromHSV([h |-> hue, s |-> dot.hsv.s, v |-> dot.hsv.v])
  IN  [sliderValue |-> y,
       squareColor |-> fillColor(newSquareColor),
       dotColor |-> fillColor(newDotColor),
       calls |-> IF selectionChanged
                 THEN << OnChangeCompleted(newDotColor) >>
                 ELSE << OnChange(newDotColor) >>]

\* updateSlider(y, selectionChanged), given the current dot color
updateSlider(y, selectionChanged, dot) ==
  LET hue == RoundDiv(y * 359, 100)
      newSquareColor == fromHSV([h |-> hue, s |-> 100, v |-> 100])
      newDotColor == fromHSV([h |-> hue, s |-> dot.hsv.s, v |-> dot.hsv.v])
  IN  [sliderValue |-> y,
       squareColor |-> fillColor(newSquareColor),
       dotColor |-> fillColor(newDotColor),
       calls |-> IF selectionChanged
                 THEN << OnChangeCompleted(newDotColor) >>
                 ELSE << OnChange(newDotColor) >>]

\* updateColorDot that takes the value from y without inverting it
updateColorDotNoInvert(x, y, selectionChanged, square) ==
  LET newColor == fromHSV([h |-> square.hsv.h, s |-> x, v |-> y])
  IN  [ran |-> TRUE,
       squareTop |-> y,
       squareLeft |-> x,
       dotColor |-> fillColor(newColor),
       calls |-> IF selectionChanged
                 THEN << OnChangeCompleted(newColor) >>
                 ELSE << >>]

\* updateColorDot(x, y, selectionChanged), given the current square color
updateColorDot(x, y, selectionChanged, square) ==
  LET newColor == fromHSV([h |-> square.hsv.h, s |-> x, v |-> 100 - y])
  IN  [ran |-> TRUE,
       squareTop |-> y,
       squareLeft |-> x,
       dotColor |-> fillColor(newColor),
       calls |-> IF selectionChanged
                 THEN << OnChangeCompleted(newColor) >>
                 ELSE << >>]

\* a handler that returned without touching the dot
NoUpdate == [ran |-> FALSE, calls |-> << >>]

\* updateSquareValue that does not look at activeDotIndex
updateSquareValueAlways(px, py, rect, callbackType, active, square) ==
  LET percentX == getHorizontalPercentageOfRectangle(rect, px)
      percentY == getVerticalPercentageOfRectangle(rect, py)
  IN  IF callbackType = "onChange" \/ callbackType = "onClick"
      THEN updateColorDot(percentX, percentY, TRUE, square)
      ELSE IF callbackType = "onUpdate"
      THEN updateColorDot(percentX, percentY, FALSE, square)
      ELSE NoUpdate

\* updateSquareValue(event, callbackType), given activeDotIndex
updateSquareValue(px, py, rect, callbackType, active, square) ==
  IF active = 1 \/ callbackType = "onClick"
  THEN LET percentX == getHorizontalPercentageOfRectangle(rect, px)
           percentY == getVerticalPercentageOfRectangle(rect, py)
       IN  IF callbackType = "onChange" \/ callbackType = "onClick"
           THEN updateColorDot(percentX, percentY, TRUE, square)
           ELSE IF callbackType = "onUpdate"
           THEN updateColorDot(percentX, percentY, FALSE, square)
           ELSE NoUpdate
  ELSE NoUpdate

\* handleSquarePointerUp that clears the active dot before it updates
handleSquarePointerUpClearFirst(px, py, rect, active, square) ==
  LET upd == updateSquareValue(px, py, rect, "onChange", undefined, square)
  IN  [upd |-> upd,
       trace |-> << "clear" >>
                 \o [i \in 1 .. Len(upd.calls) |-> upd.calls[i].kind],
       activeDotIndex |-> undefined]

\* handleSquarePointerUp: the updateSquareValue call and the
\* setActiveDotIndex(undefined) that follows it, in order
handleSquarePointerUp(px, py, rect, active, square) ==
  LET upd == updateSquareValue(px, py, rect, "onChange", active, square)
  IN  [upd |-> upd,
       trace |-> [i \in 1 .. Len(upd.calls) |-> upd.calls[i].kind]
                 \o << "clear" >>,
       activeDotIndex |-> undefined]

\* handlePointerDownOnSquare: the updateSquareValue call and the
\* setActiveDotIndex(1) that follows it, in order
handlePointerDownOnSquare(px, py, rect, active, square) ==
  LET upd == updateSquareValue(px, py, rect, "onClick", active, square)
  IN  [upd |-> upd,
       trace |-> [i \in 1 .. Len(upd.calls) |-> upd.calls[i].kind]
                 \o << "activate" >>,
       activeDotIndex |-> 1]

\* handleColorDotKeyDown: the updateColorDot call the key makes
handleColorDotKeyDown(key, left, top, square) ==
  CASE key = "ArrowDown"  -> updateColorDot(left, Min(top + 1, 100), FALSE, square)
    [] key = "ArrowUp"    -> updateColorDot(left, Max(top - 1, 0), FALSE, square)
    [] key = "ArrowLeft"  -> updateColorDot(Max(left - 1, 0), top, FALSE, square)
    [] key = "ArrowRight" -> updateColorDot(Min(left + 1, 100), top, FALSE, square)
    [] key \in {"Enter", " ", "Spacebar"} -> updateColorDot(left, top, TRUE, square)
    [] OTHER -> NoUpdate

\* ------------------------------------------------- ColorPicker: states
\* the rectangles the color field can report at the time of an event
FieldRects == { [left |-> 0, top |-> 0, width |-> 4, height |-> 4],
                [left |-> 1, top |-> 1, width |-> 5, height |-> 5] }
FieldCoords == {0 - 1, 2, 7}
HuePositions == {0, 50, 100}
DotKeys == {"ArrowDown", "ArrowUp", "ArrowLeft", "ArrowRight",
            "Enter", " ", "Tab"}

\* ColorByName.red and the selectedColor values explored
ColorByNameRed == [r |-> 255, g |-> 0, b |-> 0]
SelectedColors == { ColorByNameRed, [r |-> 0, g |-> 66, b |-> 107] }

\* the initial state with the strip position taken as round(h / 3.6)
ColorInitFromDot36 ==
  /\ squareColor = fillColor(fromHSV([h |-> dotColor.hsv.h, s |-> 100, v |-> 100]))
  /\ sliderValue = RoundDiv(dotColor.hsv.h * 10, 36)
  /\ squareTop = 100 - dotColor.hsv.v
  /\ squareLeft = dotColor.hsv.s
  /\ activeDotIndex = undefined
  /\ hueThumbActive = FALSE
  /\ notified = << >>
  /\ events = << >>
  /\ colorOp = [op |-> "init"]
  /\ keySteps = 0

\* the state the component derives from its initial dotColor
ColorInitFromDot ==
  /\ squareColor = fillColor(fromHSV([h |-> dotColor.hsv.h, s |-> 100, v |-> 100]))
  /\ sliderValue = RoundDiv(dotColor.hsv.h * 100, 359)
  /\ squareTop = 100 - dotColor.hsv.v
  /\ squareLeft = dotColor.hsv.s
  /\ activeDotIndex = undefined
  /\ hueThumbActive = FALSE
  /\ notified = << >>
  /\ events = << >>
  /\ colorOp = [op |-> "init"]
  /\ keySteps = 0

ColorInit ==
  /\ \E selectedColor \in SelectedColors : dotColor = fillColor(selectedColor)
  /\ ColorInitFromDot

\* the dot state a handler leaves behind
ApplyDot(upd) ==
  IF upd.ran
  THEN /\ squareTop' = upd.squareTop
       /\ squareLeft' = upd.squareLeft
       /\ dotColor' = upd.dotColor
  ELSE UNCHANGED <<squareTop, squareLeft, dotColor>>

\* pointer-down inside the color field (on the dot too: its own handler
\* runs setActiveDotIndex(1) and the event bubbles to the field)
SquarePointerDown(px, py, rect) ==
  \E h \in { handlePointerDownOnSquare(px, py, rect, activeDotIndex,
               squareColor) } :
      /\ ApplyDot(h.upd)
      /\ activeDotIndex' = h.activeDotIndex
      /\ notified' = h.upd.calls
      /\ events' = h.trace
      /\ colorOp' = [op |-> "down", committing |-> TRUE, ran |-> h.upd.ran]
      /\ UNCHANGED <<squareColor, sliderValue, hueThumbActive, keySteps>>
      /\ UNCHANGED <<sliderVars, paletteVars, inputVars, probe>>

\* document pointer-move
SquarePointerMove(px, py, rect) ==
  \E upd \in { updateSquareValue(px, py, rect, "onUpdate", activeDotIndex,
               squareColor) } :
      /\ activeDotIndex = 1 => Len(events) < MaxEvents
      /\ ApplyDot(upd)
      /\ notified' = upd.calls
      /\ events' = IF activeDotIndex = 1
                   THEN events
                          \o [i \in 1 .. Len(upd.calls) |-> upd.calls[i].kind]
                   ELSE events
      /\ colorOp' = [op |-> "move", committing |-> FALSE, ran |-> upd.ran]
      /\ UNCHANGED <<squareColor, sliderValue, activeDotIndex,
                     hueThumbActive, keySteps>>
      /\ UNCHANGED <<sliderVars, paletteVars, inputVars, probe>>

\* document pointer-up
SquarePointerUp(px, py, rect) ==
  \E h \in { handleSquarePointerUp(px, py, rect, activeDotIndex,
               squareColor) } :
      /\ ApplyDot(h.upd)
      /\ activeDotIndex' = h.activeDotIndex
      /\ notified' = h.upd.calls
      /\ events' = IF activeDotIndex = 1
                   THEN events \o h.trace
                   ELSE events
      /\ colorOp' = [op |-> "up", committing |-> TRUE, ran |-> h.upd.ran]
      /\ UNCHANGED <<squareColor, sliderValue, hueThumbActive, keySteps>>
      /\ UNCHANGED <<sliderVars, paletteVars, inputVars, probe>>

\* key press on the color dot
ColorDotKeyDown(key) ==
  \E upd \in { handleColorDotKeyDown(key, squareLeft, squareTop,
               squareColor) } :
      /\ keySteps < MaxKeySteps
      /\ keySteps' = keySteps + 1
      /\ ApplyDot(upd)
      /\ notified' = upd.calls
      /\ colorOp' = [op |-> "key", key |-> key, ran |-> upd.ran,
                     committing |-> key \in {"Enter", " ", "Spacebar"}]
      /\ UNCHANGED <<squareColor, sliderValue, activeDotIndex,
                     hueThumbActive, events>>
      /\ UNCHANGED <<sliderVars, paletteVars, inputVars, probe>>

\* the hue strip's Slider: pointer-down on its thumb
HueThumbPointerDown ==
  /\ hueThumbActive' = TRUE
  /\ notified' = << >>
  /\ colorOp' = [op |-> "hue-down"]
  /\ UNCHANGED <<dotColor, squareColor, sliderValue, squareTop, squareLeft,
                 activeDotIndex, events, keySteps>>
  /\ UNCHANGED <<sliderVars, paletteVars, inputVars, probe>>

\* the hue strip's Slider reports a drag position: onUpdate -> onChangeColor
HueSliderUpdate(y) ==
  \E upd \in { updateSlider(y, FALSE, dotColor) } :
      /\ hueThumbActive
      /\ sliderValue' = upd.sliderValue
      /\ squareColor' = upd.squareColor
      /\ dotColor' = upd.dotColor
      /\ notified' = upd.calls
      /\ colorOp' = [op |-> "hue", committing |-> FALSE, y |-> y,
                     fromEnd |-> (sliderValue = 100)]
      /\ UNCHANGED <<squareTop, squareLeft, activeDotIndex, hueThumbActive,
                     events, keySteps>>
      /\ UNCHANGED <<sliderVars, paletteVars, inputVars, probe>>

\* the hue strip's Slider ends the drag: onChange -> onChangeColorCompleted
HueSliderChange(y) ==
  \E upd \in { updateSlider(y, TRUE, dotColor) } :
      /\ hueThumbActive
      /\ hueThumbActive' = FALSE
      /\ sliderValue' = upd.sliderValue
      /\ squareColor' = upd.squareColor
      /\ dotColor' = upd.dotColor
      /\ notified' = upd.calls
      /\ colorOp' = [op |-> "hue", committing |-> TRUE, y |-> y,
                     fromEnd |-> (sliderValue = 100)]
      /\ UNCHANGED <<squareTop, squareLeft, activeDotIndex, events, keySteps>>
      /\ UNCHANGED <<sliderVars, paletteVars, inputVars, probe>>

ColorNext ==
  \/ \E px \in FieldCoords, py \in FieldCoords, rect \in FieldRects :
        SquarePointerDown(px, py, rect)
  \/ \E px \in FieldCoords, py \in FieldCoords, rect \in FieldRects :
        SquarePointerMove(px, py, rect)
  \/ \E px \in FieldCoords, py \in FieldCoords, rect \in FieldRects :
        SquarePointerUp(px, py, rect)
  \/ \E key \in DotKeys : ColorDotKeyDown(key)
  \/ HueThumbPointerDown
  \/ \E y \in HuePositions : HueSliderUpdate(y)
  \/ \E y \in HuePositions : HueSliderChange(y)

\* ------------------------------------------------ ColorPicker palette
MaxSwatches == 4     \* swatches in the palette
MaxColumns == 2      \* columns of the wrapped grid

\* '#rrggbb' strings
HexFF0000 == << "F", "F", "0", "0", "0", "0" >>
HexFF0100 == << "F", "F", "0", "1", "0", "0" >>
Hex00121D == << "0", "0", "1", "2", "1", "D" >>
HexD4F4BD == << "D", "4", "F", "4", "B", "D" >>

\* a Color of paletteProps.colors: a string, or an HslColor object
StringColor(hex) == [str |-> hex]
IsString(color) == "str" \in DOMAIN color

\* the palettes explored are the leading swatches of this list
PaletteList ==
  << StringColor(HexFF0000), StringColor(Hex00121D), StringColor(HexFF0100),
     [hsl |-> [h |-> 0, s |-> 100, l |-> 50]], StringColor(HexFF0000),
     StringColor(HexD4F4BD) >>
PaletteOf(n) == [i \in 0 .. (n - 1) |-> PaletteList[(i % Len(PaletteList)) + 1]]

\* the selectedColor props explored: a string, and a ColorValue object
PaletteSelected == { StringColor(HexFF0000), [value |-> ColorByNameRed] }

\* Array.findIndex over the indices that satisfy the predicate
findIndex(matching) ==
  IF matching = {} THEN 0 - 1
  ELSE CHOOSE i \in matching : \A j \in matching : i <= j

\* swatch.offsetLeft in a grid that wraps after `columns` swatches
offsetLeft(index, columns) == index % columns

\* ColorSwatch isActive prop
isActive(color, active) ==
  IF IsString(color)
  THEN toHslString(fromString(color.str)) = toHslString(active)
  ELSE FALSE

\* ColorSwatch onClick of a palette swatch
onClick(color, active) ==
  IF IsString(color)
  THEN [calls |-> << OnChangeCompleted(fromString(color.str)) >>,
        activeColor |-> fromString(color.str)]
  ELSE [calls |-> << >>, activeColor |-> active]

\* handleKeyDown with ArrowLeft/ArrowRight wrapping around the ends
handleKeyDownWrap(key, length, columns, currentlyFocused) ==
  IF length = 0
  THEN [focus |-> undefined, click |-> undefined, current |-> undefined]
  ELSE
    LET currentIndex == IF currentlyFocused > (0 - 1) THEN currentlyFocused
                        ELSE 0
        sameColumn(i) == offsetLeft(i, columns) = offsetLeft(currentIndex, columns)
        newIndex ==
          CASE key = "ArrowDown" ->
                 findIndex({ i \in 0 .. (length - 1) :
                               i > currentIndex /\ sameColumn(i) })
            [] key = "ArrowUp" ->
                 LET above == { i \in 0 .. (currentIndex - 1) : sameColumn(i) }
                 IN  IF above = {} THEN 0 - 1
                     ELSE CHOOSE i \in above : \A j \in above : j <= i
            [] key = "ArrowLeft" -> (currentIndex - 1) % length
            [] key = "ArrowRight" -> (currentIndex + 1) % length
            [] OTHER -> 0 - 1
    IN  IF key \in {"Enter", " ", "Spacebar"}
        THEN [focus |-> undefined, click |-> currentIndex,
              current |-> currentIndex]
        ELSE IF newIndex >= 0 /\ newIndex < length
        THEN [focus |-> newIndex, click |-> undefined,
              current |-> currentIndex]
        ELSE [focus |-> undefined, click |-> undefined,
              current |-> currentIndex]

\* handleKeyDown whose ArrowUp takes the first swatch with the same offsetLeft
handleKeyDownFirstAbove(key, length, columns, currentlyFocused) ==
  IF length = 0
  THEN [focus |-> undefined, click |-> undefined, current |-> undefined]
  ELSE
    LET currentIndex == IF currentlyFocused > (0 - 1) THEN currentlyFocused
                        ELSE 0
        sameColumn(i) == offsetLeft(i, columns) = offsetLeft(currentIndex, columns)
        newIndex ==
          CASE key = "ArrowDown" ->
                 findIndex({ i \in 0 .. (length - 1) :
                               i > currentIndex /\ sameColumn(i) })
            [] key = "ArrowUp" ->
                 LET above == { i \in 0 .. (currentIndex - 1) : sameColumn(i) }
                 IN  findIndex(above)
            [] key = "ArrowLeft" -> Max(currentIndex - 1, 0)
            [] key = "ArrowRight" -> Min(currentIndex + 1, length - 1)
            [] OTHER -> 0 - 1
    IN  IF key \in {"Enter", " ", "Spacebar"}
        THEN [focus |-> undefined, click |-> currentIndex,
              current |-> currentIndex]
        ELSE IF newIndex >= 0 /\ newIndex < length
        THEN [focus |-> newIndex, click |-> undefined,
              current |-> currentIndex]
        ELSE [focus |-> undefined, click |-> undefined,
              current |-> currentIndex]

\* handleKeyDown of the palette: the index it passes to setFocusedColor and
\* the swatch it clicks (undefined where it does neither)
handleKeyDown(key, length, columns, currentlyFocused) ==
  IF length = 0
  THEN [focus |-> undefined, click |-> undefined, current |-> undefined]
  ELSE
    LET currentIndex == IF currentlyFocused > (0 - 1) THEN currentlyFocused
                        ELSE 0
        sameColumn(i) == offsetLeft(i, columns) = offsetLeft(currentIndex, columns)
        newIndex ==
          CASE key = "ArrowDown" ->
                 findIndex({ i \in 0 .. (length - 1) :
                               i > currentIndex /\ sameColumn(i) })
            [] key = "ArrowUp" ->
                 LET above == { i \in 0 .. (currentIndex - 1) : sameColumn(i) }
                 IN  IF above = {} THEN 0 - 1
                     ELSE CHOOSE i \in above : \A j \in above : j <= i
            [] key = "ArrowLeft" -> Max(currentIndex - 1, 0)
            [] key = "ArrowRight" -> Min(currentIndex + 1, length - 1)
            [] OTHER -> 0 - 1
    IN  IF key \in {"Enter", " ", "Spacebar"}
        THEN [focus |-> undefined, click |-> currentIndex,
              current |-> currentIndex]
        ELSE IF newIndex >= 0 /\ newIndex < length
        THEN [focus |-> newIndex, click |-> undefined,
              current |-> currentIndex]
        ELSE [focus |-> undefined, click |-> undefined,
              current |-> currentIndex]

\* ------------------------------------------------------ palette: states
PaletteKeys == DotKeys
SwatchCount == Cardinality(DOMAIN paletteProps.colors)

\* the swatches the palette renders as active
ActiveSwatches ==
  { i \in DOMAIN paletteProps.colors :
      isActive(paletteProps.colors[i], activeColor) }

\* the palette after mounting: the focus effect has looked for the swatch
\* with tabIndex 0 (the active one), made it the focus target and focused it
PaletteInit ==
  /\ \E n \in 0 .. MaxSwatches, columns \in 1 .. MaxColumns :
        paletteProps = [colors |-> PaletteOf(n), columns |-> columns]
  /\ \E selectedColor \in PaletteSelected :
        activeColor = IF IsString(selectedColor)
                      THEN fromString(selectedColor.str)
                      ELSE fromString(Hex00121D)
  /\ focusedColor = findIndex(ActiveSwatches)
  /\ activeElement = focusedColor
  /\ paletteNotified = << >>
  /\ paletteOp = [op |-> "init"]

\* the focus effect: it runs when focusedColor has changed and focuses the
\* swatch at that index
FocusEffect ==
  activeElement' = IF focusedColor' # focusedColor /\ focusedColor' # undefined
                   THEN focusedColor'
                   ELSE activeElement

\* key press inside the palette
PaletteKeyDown(key) ==
  \E k \in { handleKeyDown(key, SwatchCount, paletteProps.columns,
                           activeElement) } :
    \E c \in { IF k.click # undefined
               THEN onClick(paletteProps.colors[k.click], activeColor)
               ELSE [calls |-> << >>, activeColor |-> activeColor] } :
      /\ focusedColor' = IF k.focus # undefined THEN k.focus ELSE focusedColor
      /\ FocusEffect
      /\ activeColor' = c.activeColor
      /\ paletteNotified' = c.calls
      /\ paletteOp' = [op |-> "key", key |-> key, current |-> k.current,
                       click |-> k.click]
      /\ UNCHANGED paletteProps
      /\ UNCHANGED <<sliderVars, colorVars, inputVars, probe>>

\* pointer click on swatch `index`; the browser moves the focus to it
SwatchClick(index) ==
  \E c \in { onClick(paletteProps.colors[index], activeColor) } :
    /\ activeColor' = c.activeColor
    /\ paletteNotified' = c.calls
    /\ activeElement' = index
    /\ paletteOp' = [op |-> "click", click |-> index]
    /\ UNCHANGED <<paletteProps, focusedColor>>
    /\ UNCHANGED <<sliderVars, colorVars, inputVars, probe>>

\* the focus leaves the swatches
PaletteFocusOut ==
  /\ activeElement # undefined
  /\ activeElement' = undefined
  /\ paletteNotified' = << >>
  /\ paletteOp' = [op |-> "blur"]
  /\ UNCHANGED <<paletteProps, focusedColor, activeColor>>
  /\ UNCHANGED <<sliderVars, colorVars, inputVars, probe>>

PaletteNext ==
  \/ \E key \in PaletteKeys : PaletteKeyDown(key)
  \/ \E index \in DOMAIN paletteProps.colors : SwatchClick(index)
  \/ PaletteFocusOut

\* a picker without a palette
PaletteAtRest ==
  /\ paletteProps = [colors |-> PaletteOf(0), columns |-> 1]
  /\ activeColor = fromString(Hex00121D)
  /\ focusedColor = undefined
  /\ activeElement = undefined
  /\ paletteNotified = << >>
  /\ paletteOp = [op |-> "init"]

\* ------------------------------------------------ ColorPicker color input
MaxSwaps == 3        \* calls of onSwapColorType explored per run

InputTypes == {"HEX", "HSL", "RGB", "NONE"}

\* builderProps.defaultColorInputType: one of the types, or not given
DefaultColorInputTypes == InputTypes \cup {"unset"}

\* onSwapColorType whose last branch falls through to 'NONE'
onSwapColorTypeToNone(type) ==
  IF type = "HEX" THEN "HSL"
  ELSE IF type = "HSL" THEN "RGB"
  ELSE "NONE"

\* onSwapColorType: the type it passes to setInputType (the current type
\* where it calls nothing)
onSwapColorType(type) ==
  IF type = "HEX" THEN "HSL"
  ELSE IF type = "HSL" THEN "RGB"
  ELSE IF type = "RGB" THEN "HEX"
  ELSE type

\* the initial inputType: builderProps?.defaultColorInputType ?? 'NONE'
InputInit ==
  /\ \E type \in DefaultColorInputTypes :
        builderProps = [defaultColorInputType |-> type]
  /\ inputType = IF builderProps.defaultColorInputType = "unset"
                 THEN "NONE"
                 ELSE builderProps.defaultColorInputType
  /\ swaps = 0

\* a picker whose builder shows no color input
InputAtRest ==
  /\ builderProps = [defaultColorInputType |-> "unset"]
  /\ inputType = "NONE"
  /\ swaps = 0

\* a call of onSwapColorType (the swap button's onClick; the button is
\* rendered while inputType is not 'NONE', the handler is total)
SwapColorType ==
  /\ swaps < MaxSwaps
  /\ swaps' = swaps + 1
  /\ inputType' = onSwapColorType(inputType)
  /\ UNCHANGED builderProps
  /\ UNCHANGED <<sliderVars, colorVars, paletteVars, probe>>

\* the builder with its color input: swaps, and key presses on the dot,
\* whose color the input fields show
InputNext ==
  \/ SwapColorType
  \/ \E key \in DotKeys : ColorDotKeyDown(key)

\* ---------------------------------------------------------- conversions
NoProbe == [fn |-> "none"]
MaxFieldPointer == 7     \* largest pointer coordinate applied

\* field rectangles of positive size whose sides divide 100, so that the
\* percentage of every whole pointer coordinate is a whole number
ProbeSizes == {1, 2, 4, 5}
ProbeRects ==
  [left : 0 .. 1, top : 0 .. 1, width : ProbeSizes, height : ProbeSizes]
ProbePointers == (0 - 1) .. MaxFieldPointer

\* the colors given to the conversions, one set per representation
ProbeHues == {0, 60, 200, 359}
ProbePercents == {0, 1, 50, 100}
ProbeChannels == {0, 1, 128, 255}
ProbeHSV == [h : ProbeHues, s : ProbePercents, v : ProbePercents]
ProbeHSL == [h : ProbeHues, s : ProbePercents, l : ProbePercents]
ProbeRGB == [r : ProbeChannels, g : ProbeChannels, b : ProbeChannels]
ProbeHEX == {HexFF0000, HexFF0100, Hex00121D, HexD4F4BD}

\* a conversion is pure: it is applied once, to the arguments drawn, and
\* nothing else changes
ProbeUnchanged ==
  /\ probe = NoProbe
  /\ UNCHANGED <<sliderVars, colorVars, paletteVars, inputVars>>

\* updateSquareValue's percentX / percentY for a pointer event
SquareCoords(px, py, rect) ==
  /\ ProbeUnchanged
  /\ probe' = [fn |-> "coords", px |-> px, py |-> py, rect |-> rect,
               x |-> getHorizontalPercentageOfRectangle(rect, px),
               y |-> getVerticalPercentageOfRectangle(rect, py)]

\* fillColor of a color given in one representation
FillFromHSV(hsv) ==
  /\ ProbeUnchanged
  /\ probe' = [fn |-> "hsv", given |-> hsv, filled |-> fillColor(fromHSV(hsv))]

FillFromHSL(hsl) ==
  /\ ProbeUnchanged
  /\ probe' = [fn |-> "hsl", given |-> hsl, filled |-> fillColor(fromHSL(hsl))]

FillFromRGB(rgb) ==
  /\ ProbeUnchanged
  /\ probe' = [fn |-> "rgb", given |-> rgb, filled |-> fillColor(rgb)]

FillFromHEX(hex) ==
  /\ ProbeUnchanged
  /\ probe' = [fn |-> "hex", given |-> hex,
               filled |-> fillColor(fromString(hex))]

ConversionNext ==
  \/ \E px \in ProbePointers, py \in ProbePointers, rect \in ProbeRects :
        SquareCoords(px, py, rect)
  \/ \E hsv \in ProbeHSV : FillFromHSV(hsv)
  \/ \E hsl \in ProbeHSL : FillFromHSL(hsl)
  \/ \E rgb \in ProbeRGB : FillFromRGB(rgb)
  \/ \E hex \in ProbeHEX : FillFromHEX(hex)

\* ------------------------------------------------------- specifications
\* the slider alone; the color picker rests in its initial state
SliderOnlyInit ==
  /\ SliderInit
  /\ dotColor = fillColor(ColorByNameRed)
  /\ ColorInit
  /\ PaletteAtRest
  /\ InputAtRest
  /\ probe = NoProbe

Spec == SliderOnlyInit /\ [][SliderNext]_vars

\* the color picker alone; the slider rests in one configuration
ColorOnlyInit ==
  /\ ColorInit
  /\ sliderMin = 0 /\ sliderMax = 1 /\ step = 1
  /\ thumbMode = "no-crossing"
  /\ thumbSet = [i \in {0} |-> 0]
  /\ activeThumbIndex = undefined
  /\ emitted = << >>
  /\ lastOp = [op |-> "init"]
  /\ PaletteAtRest
  /\ InputAtRest
  /\ probe = NoProbe

ColorSpec == ColorOnlyInit /\ [][ColorNext]_vars

\* the hue strip alone, over every position its Slider can report (the
\* Slider's default range), from light and dark selected colors
HueStripPositions == 0 .. 100
DarkGray == [r |-> 26, g |-> 25, b |-> 25]
HueSelectedColors == SelectedColors \cup { DarkGray }

HueOnlyInit ==
  /\ \E selectedColor \in HueSelectedColors :
        dotColor = fillColor(selectedColor)
  /\ ColorInitFromDot
  /\ sliderMin = 0 /\ sliderMax = 1 /\ step = 1
  /\ thumbMode = "no-crossing"
  /\ thumbSet = [i \in {0} |-> 0]
  /\ activeThumbIndex = undefined
  /\ emitted = << >>
  /\ lastOp = [op |-> "init"]
  /\ PaletteAtRest
  /\ InputAtRest
  /\ probe = NoProbe

HueNext ==
  \/ HueThumbPointerDown
  \/ \E y \in HueStripPositions : HueSliderUpdate(y)
  \/ \E y \in HueStripPositions : HueSliderChange(y)

HueSpec == HueOnlyInit /\ [][HueNext]_vars

\* ------------------------- RangeInteractionModel: construction (section 7)
\* construction that also accepts an empty range (min = max)
validateRangeLenient(min, max, st) ==
  IF min > max \/ st <= 0 THEN "ConfigurationError" ELSE "ok"

\* the check made at construction time
validateRange(min, max, st) ==
  IF min >= max \/ st <= 0 THEN "ConfigurationError" ELSE "ok"

\* no RangeInteractionModel exists
NoModelState ==
  /\ sliderMin = undefined /\ sliderMax = undefined /\ step = undefined
  /\ thumbMode = "none"
  /\ thumbSet = << >>
  /\ activeThumbIndex = undefined
  /\ emitted = << >>

Constructed == lastOp.op \notin {"unconstructed", "ConfigurationError"}

\* the configurations a caller may pass, valid or not
ConstructMins == 0 .. MaxMin
ConstructMaxs == 0 .. MaxValue
ConstructSteps == (0 - 1) .. MaxStep

\* construction of the model from a configuration and initial values
Construct(min, max, st, mode, values) ==
  /\ lastOp.op = "unconstructed"
  /\ IF validateRange(min, max, st) = "ok"
     THEN /\ sliderMin' = min /\ sliderMax' = max /\ step' = st
          /\ thumbMode' = mode
          /\ thumbSet' = values
          /\ lastOp' = [op |-> "init"]
     ELSE /\ lastOp' = [op |-> "ConfigurationError", min |-> min,
                        max |-> max, step |-> st]
          /\ UNCHANGED <<sliderMin, sliderMax, step, thumbMode, thumbSet>>
  /\ UNCHANGED <<activeThumbIndex, emitted>>
  /\ UNCHANGED <<colorVars, paletteVars, inputVars, probe>>

\* activate(thumbIndex) for any index, inside the thumb count or not
Activate(thumbIndex) ==
  /\ activeThumbIndex' = onThumbActivated(activeThumbIndex, thumbIndex,
                                          ThumbCount)
  /\ emitted' = << >>
  /\ lastOp' = [op |-> "activate", index |-> thumbIndex,
                was |-> activeThumbIndex]
  /\ UNCHANGED thumbSet
  /\ ConfigUnchanged

ConstructionInit ==
  /\ NoModelState
  /\ lastOp = [op |-> "unconstructed"]
  /\ dotColor = fillColor(ColorByNameRed)
  /\ ColorInitFromDot
  /\ PaletteAtRest
  /\ InputAtRest
  /\ probe = NoProbe

ConstructionNext ==
  \/ \E min \in ConstructMins, max \in ConstructMaxs, st \in ConstructSteps,
        mode \in {"no-crossing", "allow-crossing"}, n \in 1 .. MaxThumbs :
        \E values \in IF validateRange(min, max, st) = "ok"
                      THEN ThumbSets(n, min, max, st, mode)
                      ELSE { [i \in 0 .. (n - 1) |-> min] } :
          Construct(min, max, st, mode, values)
  \/ Constructed /\ \E thumbIndex \in (0 - 1) .. MaxThumbs : Activate(thumbIndex)
  \/ Constructed /\ \E p \in PointerCoords, rect \in TrackRects :
                      SliderPointerMove(p, rect)
  \/ Constructed /\ SliderPointerUp
  \/ Constructed /\ \E i \in DOMAIN thumbSet, key \in Keys : ThumbKeyDown(i, key)

ConstructionSpec == ConstructionInit /\ [][ConstructionNext]_vars

\* the slider and the color builder at rest
SliderAtRest ==
  /\ sliderMin = 0 /\ sliderMax = 1 /\ step = 1
  /\ thumbMode = "no-crossing"
  /\ thumbSet = [i \in {0} |-> 0]
  /\ activeThumbIndex = undefined
  /\ emitted = << >>
  /\ lastOp = [op |-> "init"]

BuilderAtRest ==
  /\ dotColor = fillColor(ColorByNameRed)
  /\ ColorInitFromDot

\* the palette alone
PaletteOnlyInit ==
  /\ PaletteInit
  /\ SliderAtRest
  /\ BuilderAtRest
  /\ InputAtRest
  /\ probe = NoProbe

PaletteSpec == PaletteOnlyInit /\ [][PaletteNext]_vars

\* the color input of the builder
InputOnlyInit ==
  /\ InputInit
  /\ ColorInit
  /\ SliderAtRest
  /\ PaletteAtRest
  /\ probe = NoProbe

InputSpec == InputOnlyInit /\ [][InputNext]_vars

\* the pure functions alone
ConversionInit ==
  /\ probe = NoProbe
  /\ SliderAtRest
  /\ BuilderAtRest
  /\ PaletteAtRest
  /\ InputAtRest

ConversionSpec == ConversionInit /\ [][ConversionNext]_vars

\* ====================================================== Slider properties
\* the thumbs the Slider renders as active (Thumb's isActive prop)
ActiveThumbs == { i \in DOMAIN thumbSet : activeThumbIndex = i }

\* the bounds of thumb i written out: its neighbours' values in no-crossing
\* mode, the range's ends where there is no neighbour or crossing is allowed
LowerBound(values, i) ==
  IF thumbMode = "no-crossing" /\ (i - 1) \in DOMAIN values
  THEN values[i - 1] ELSE sliderMin
UpperBound(values, i) ==
  IF thumbMode = "no-crossing" /\ (i + 1) \in DOMAIN values
  THEN values[i + 1] ELSE sliderMax

OthersUnchanged(i) ==
  /\ DOMAIN thumbSet' = DOMAIN thumbSet
  /\ \A j \in DOMAIN thumbSet : j # i => thumbSet'[j] = thumbSet[j]

\* C1: in no-crossing mode the values are non-decreasing by thumb index
\* after any sequence of activations, pointer moves and key presses.
C1_NoCrossing == thumbMode = "no-crossing" => NonDecreasing(thumbSet)

\* a thumb pushed with End against a right neighbour that is below max
C1_Witness ==
  /\ thumbMode = "no-crossing"
  /\ lastOp.op = "key" /\ lastOp.key = "End" /\ lastOp.changed
  /\ lastOp.index = 0 /\ 1 \in DOMAIN thumbSet
  /\ thumbSet[0] = thumbSet[1] /\ thumbSet[1] < sliderMax

C6_ValuesOnGrid ==
  \A i \in DOMAIN thumbSet :
    /\ thumbSet[i] >= sliderMin /\ thumbSet[i] <= sliderMax
    /\ \/ thumbSet[i] = sliderMax
       \/ \E k \in 0 .. MaxValue : thumbSet[i] = sliderMin + k * step

C8_MoveClamps ==
  [][lastOp'.op = "move" =>
       LET i == lastOp'.index
           lo == LowerBound(thumbSet, i)
           hi == UpperBound(thumbSet, i)
           raw == lastOp'.raw
       IN  /\ thumbSet'[i] = IF raw < lo THEN lo
                             ELSE IF raw > hi THEN hi ELSE raw
           /\ OthersUnchanged(i)]_vars

\* thumb 0 dragged beyond thumb 1 stops at thumb 1's value
C8_Witness ==
  /\ thumbMode = "no-crossing"
  /\ lastOp.op = "move" /\ lastOp.index = 0 /\ 1 \in DOMAIN thumbSet
  /\ lastOp.raw > thumbSet[1] /\ thumbSet[0] = thumbSet[1]
  /\ thumbSet[1] < sliderMax

\* C9: a key press changes only its thumb: ArrowLeft/ArrowRight move it by
\* one step or less far to the bound it hits, Home/End put it at min/max
\* clamped to the thumb's bounds, any other key changes nothing.
C9_KeyStep ==
  [][lastOp'.op = "key" =>
       LET i == lastOp'.index
           key == lastOp'.key
           lo == LowerBound(thumbSet, i)
           hi == UpperBound(thumbSet, i)
           old == thumbSet[i]
           new == thumbSet'[i]
       IN  /\ OthersUnchanged(i)
           /\ key = "ArrowLeft" =>
                new = (IF old - step < lo THEN lo ELSE old - step)
           /\ key = "ArrowRight" =>
                new = (IF old + step > hi THEN hi ELSE old + step)
           /\ key = "Home" => new = (IF sliderMin < lo THEN lo ELSE sliderMin)
           /\ key = "End" => new = (IF sliderMax > hi THEN hi ELSE sliderMax)
           /\ key \notin {"ArrowLeft", "ArrowRight", "Home", "End"} =>
                new = old]_vars

\* Home on the right thumb of two stops at the left thumb's value
C9_Witness ==
  /\ thumbMode = "no-crossing"
  /\ lastOp.op = "key" /\ lastOp.key = "Home" /\ lastOp.changed
  /\ lastOp.index = 1
  /\ thumbSet[1] = thumbSet[0] /\ thumbSet[0] > sliderMin

\* C10: a key press that changes a value fires one live update and then one
\* commit, both with the value sequence after the change, and opens no
\* drag phase.
C10_KeyNotifies ==
  [][(lastOp'.op = "key" /\ thumbSet' # thumbSet) =>
       /\ emitted' = << [kind |-> "live", values |-> thumbSet'],
                        [kind |-> "commit", values |-> thumbSet'] >>
       /\ activeThumbIndex' = activeThumbIndex]_vars

\* ArrowRight changed a value while no thumb was being dragged
C10_Witness ==
  /\ lastOp.op = "key" /\ lastOp.key = "ArrowRight" /\ lastOp.changed
  /\ Len(emitted) = 2
  /\ activeThumbIndex = undefined

ColorAtDot ==
  fromHSV([h |-> squareColor.hsv.h, s |-> squareLeft, v |-> 100 - squareTop])

\* the number of entries of a sequence that equal e
Count(seq, e) == Cardinality({ i \in 1 .. Len(seq) : seq[i] = e })

C3_OneCommit ==
  (events # << >> /\ events[Len(events)] = "clear") =>
    Count(events, "commit") = 1

\* C4: an update of the dot with committing=false calls onChange with the
\* new color and nothing else; one with committing=true calls
\* onChangeCompleted with the new color.
C4_Emission ==
  (colorOp.op \in {"down", "move", "up", "key"} /\ colorOp.ran) =>
    IF colorOp.committing
    THEN \E i \in 1 .. Len(notified) :
           notified[i] = [kind |-> "commit", color |-> ColorAtDot]
    ELSE notified = << [kind |-> "live", color |-> ColorAtDot] >>

\* the hue the hue strip has selected (the field's color is that hue at
\* full saturation and value)
CurrentHue == squareColor.hsv.h

\* C11 as stated: a hue-strip update at huePercent sets the hue to
\* round(huePercent * 3.6), kept inside [0, 360).
C11_Hue36 ==
  colorOp.op = "hue" =>
    CurrentHue = Min(RoundDiv(colorOp.y * 36, 10), 359)

\* C11: a hue-strip update at huePercent in 0..100 sets the hue to
\* round(huePercent * 3.59), a whole degree in [0, 359], and the field
\* shows that hue at full saturation and value.
C11_Hue359 ==
  colorOp.op = "hue" =>
    /\ CurrentHue = RoundDiv(colorOp.y * 359, 100)
    /\ CurrentHue \in 0 .. 359
    /\ sliderValue = colorOp.y
    /\ squareColor.rgb = fromHSV([h |-> CurrentHue, s |-> 100, v |-> 100])

\* the strip at 11 percent: hue 39, where round(11 * 3.6) is 40
C11_Witness ==
  /\ colorOp.op = "hue" /\ colorOp.y = 11
  /\ CurrentHue = 39

\* the largest difference between two colors in one RGB channel
ChannelDistance(a, b) ==
  Max(Abs(a.r - b.r), Max(Abs(a.g - b.g), Abs(a.b - b.b)))

\* a hue-strip update at 0 taken while the strip stands at 100, the dot's
\* saturation and value being the same before and after
HueWrapStep ==
  /\ sliderValue = 100
  /\ colorOp'.op = "hue" /\ colorOp'.y = 0
  /\ dotColor'.hsv.s = dotColor.hsv.s
  /\ dotColor'.hsv.v = dotColor.hsv.v

\* C12 as stated: the hue strip at 100 and then at 0 gives equivalent hues
\* and the same derived RGB colors.
C12_HueWrap ==
  [][HueWrapStep =>
       /\ CurrentHue' % 360 = CurrentHue % 360
       /\ squareColor'.rgb = squareColor.rgb
       /\ dotColor'.rgb = dotColor.rgb]_vars

\* C12: the hue strip at 100 gives hue 359 and at 0 gives hue 0, one degree
\* apart on the hue circle; the derived RGB colors of the field and of the
\* dot differ by at most 5 in every channel.
C12_HueWrapAdjacent ==
  [][HueWrapStep =>
       /\ CurrentHue = 359 /\ CurrentHue' = 0
       /\ ChannelDistance(squareColor'.rgb, squareColor.rgb) <= 5
       /\ ChannelDistance(dotColor'.rgb, dotColor.rgb) <= 5]_vars

\* the strip moved from 100 to 0 under a fully saturated, bright dot
C12_Witness ==
  /\ colorOp.op = "hue" /\ colorOp.y = 0 /\ colorOp.fromEnd
  /\ CurrentHue = 0
  /\ dotColor.hsv.s = 100 /\ dotColor.hsv.v = 100
  /\ dotColor.rgb = ColorByNameRed

\* C13: a hue-strip update changes only the hue: the saturation and value of
\* the dot's color and the dot's position in the field are the same after
\* the update as before it.
C13_HueOnly ==
  [][colorOp'.op = "hue" =>
       /\ dotColor'.hsv.s = dotColor.hsv.s
       /\ dotColor'.hsv.v = dotColor.hsv.v
       /\ squareTop' = squareTop
       /\ squareLeft' = squareLeft]_vars

\* the handlers that end in updateColorDot
DotOps == {"down", "move", "up", "key"}

\* C14: an update of the dot at (x, y) sets the color to the HSV color
\* {h: current hue, s: x, v: 100 - y} and leaves the hue (the field's color
\* and the strip's position) unchanged; (x = 100, y = 0) at hue 0 gives
\* HSV {0, 100, 100}, HEX #FF0000.
C14_SquareSetsColor ==
  /\ []((colorOp.op \in DotOps /\ colorOp.ran) =>
         /\ dotColor = fillColor(fromHSV([h |-> CurrentHue, s |-> squareLeft,
                                          v |-> 100 - squareTop]))
         /\ (CurrentHue = 0 /\ squareLeft = 100 /\ squareTop = 0) =>
              /\ dotColor.hsv = [h |-> 0, s |-> 100, v |-> 100]
              /\ dotColor.hex = << "F", "F", "0", "0", "0", "0" >>)
  /\ [][(colorOp'.op \in DotOps /\ colorOp'.ran) =>
         /\ squareColor' = squareColor
         /\ sliderValue' = sliderValue]_vars

\* a press on the field's top right corner at hue 0 selected #FF0000
C14_Witness ==
  /\ colorOp.op = "down" /\ colorOp.ran
  /\ CurrentHue = 0 /\ squareLeft = 100 /\ squareTop = 0
  /\ dotColor.hex = << "F", "F", "0", "0", "0", "0" >>

\* C16: a key press on the color dot: an arrow key moves x (ArrowLeft,
\* ArrowRight) or y (ArrowUp, ArrowDown) by 1 in its direction, clamped to
\* [0, 100], and leaves the other coordinate unchanged; Enter and Space
\* commit the current color and leave x and y unchanged; any other key
\* changes nothing.
C16_DotKeys ==
  /\ [](squareLeft \in 0 .. 100 /\ squareTop \in 0 .. 100)
  /\ [][colorOp'.op = "key" =>
         LET key == colorOp'.key
         IN  /\ key = "ArrowLeft" =>
                  /\ squareLeft' = Max(squareLeft - 1, 0)
                  /\ squareTop' = squareTop
             /\ key = "ArrowRight" =>
                  /\ squareLeft' = Min(squareLeft + 1, 100)
                  /\ squareTop' = squareTop
             /\ key = "ArrowUp" =>
                  /\ squareTop' = Max(squareTop - 1, 0)
                  /\ squareLeft' = squareLeft
             /\ key = "ArrowDown" =>
                  /\ squareTop' = Min(squareTop + 1, 100)
                  /\ squareLeft' = squareLeft
             /\ key \in {"Enter", " ", "Spacebar"} =>
                  /\ squareLeft' = squareLeft /\ squareTop' = squareTop
                  /\ notified' = << OnChangeCompleted(dotColor.rgb) >>
             /\ key \notin {"ArrowLeft", "ArrowRight", "ArrowUp", "ArrowDown",
                             "Enter", " ", "Spacebar"} =>
                  UNCHANGED <<squareLeft, squareTop, dotColor>>]_vars

\* ==================================================== conversion properties
\* C15: the field coordinates of a pointer are both in [0, 100] for every
\* pointer position and every rectangle of positive size; a pointer outside
\* the rectangle on an axis maps to 0 or 100, the nearest edge, on that
\* axis, and a pointer inside maps to its percentage of the width (height).
C15_SquareCoords ==
  probe.fn = "coords" =>
    LET rect == probe.rect
    IN  /\ probe.x \in 0 .. 100 /\ probe.y \in 0 .. 100
        /\ probe.px <= rect.left => probe.x = 0
        /\ probe.px >= rect.left + rect.width => probe.x = 100
        /\ (probe.px >= rect.left /\ probe.px <= rect.left + rect.width) =>
             probe.x * rect.width = (probe.px - rect.left) * 100
        /\ probe.py <= rect.top => probe.y = 0
        /\ probe.py >= rect.top + rect.height => probe.y = 100
        /\ (probe.py >= rect.top /\ probe.py <= rect.top + rect.height) =>
             probe.y * rect.height = (probe.py - rect.top) * 100

\* a pointer left of the field and strictly inside it vertically
C15_Witness ==
  /\ probe.fn = "coords"
  /\ probe.px < probe.rect.left /\ probe.x = 0
  /\ probe.py > probe.rect.top
  /\ probe.py < probe.rect.top + probe.rect.height
  /\ probe.y = 25

\* the distance between two hues on the hue circle
HueDistance(a, b) == Min(Abs(a - b), 360 - Abs(a - b))

\* C19: a color given as HSV, HSL, RGB or HEX, passed through fillColor and
\* read back in the representation it was given in, is the original within
\* 1 unit per channel.
C19_RoundTrip ==
  /\ probe.fn = "hsv" =>
       /\ HueDistance(probe.filled.hsv.h, probe.given.h) <= 1
       /\ Abs(probe.filled.hsv.s - probe.given.s) <= 1
       /\ Abs(probe.filled.hsv.v - probe.given.v) <= 1
  /\ probe.fn = "hsl" =>
       /\ HueDistance(probe.filled.hsl.h, probe.given.h) <= 1
       /\ Abs(probe.filled.hsl.s - probe.given.s) <= 1
       /\ Abs(probe.filled.hsl.l - probe.given.l) <= 1
  /\ probe.fn = "rgb" => ChannelDistance(probe.filled.rgb, probe.given) <= 1
  /\ probe.fn = "hex" =>
       ChannelDistance(fromString(probe.filled.hex),
                       fromString(probe.given)) <= 1

ColorOf(color) ==
  IF IsString(color) THEN fromString(color.str) ELSE fromHSL(color.hsl)

\* C20: a click on a palette swatch whose color is a string calls
\* onChangeCompleted exactly once with that color and fires no live update;
\* afterwards a swatch is marked active exactly when its color equals the
\* clicked color.
C20_SwatchClick ==
  (paletteOp.op \in {"click", "key"} /\ paletteOp.click # undefined
     /\ IsString(paletteProps.colors[paletteOp.click])) =>
    LET clicked == ColorOf(paletteProps.colors[paletteOp.click])
    IN  /\ paletteNotified = << OnChangeCompleted(clicked) >>
        /\ ActiveSwatches =
             { i \in DOMAIN paletteProps.colors :
                 ColorOf(paletteProps.colors[i]) = clicked }

\* C21: after any sequence of color-field updates (pointer or keyboard) and
\* hue-strip updates the dot color's HSV is {h: the field's hue,
\* s: squareLeft, v: 100 - squareTop}.
C21_Synchronized ==
  dotColor.hsv = [h |-> CurrentHue, s |-> squareLeft, v |-> 100 - squareTop]

SameOffset(i) ==
  { j \in DOMAIN paletteProps.colors :
      offsetLeft(j, paletteProps.columns) = offsetLeft(i, paletteProps.columns) }

C24_OneFocusTarget ==
  /\ [](SwatchCount > 0 => focusedColor \in 0 .. (SwatchCount - 1))
  /\ [][(paletteOp'.op = "key" /\ SwatchCount > 0
           /\ paletteOp'.key \in {"Enter", " ", "Spacebar"}) =>
         /\ paletteOp'.click = focusedColor
         /\ focusedColor' = focusedColor]_vars

\* C25 as stated: in every reachable state the hue is
\* round(sliderValue * 3.59).
C25_ThumbIsHue ==
  CurrentHue = RoundDiv(sliderValue * 359, 100)

\* C25: in every reachable state the hue strip's thumb stands at the
\* position nearest to the current hue, sliderValue = round(hue / 3.59), so
\* that the hue is within 2 degrees of round(sliderValue * 3.59); after a
\* hue-strip update the hue is round(sliderValue * 3.59) exactly.
C25_ThumbNearHue ==
  /\ sliderValue \in 0 .. 100
  /\ sliderValue = RoundDiv(CurrentHue * 100, 359)
  /\ Abs(CurrentHue - RoundDiv(sliderValue * 359, 100)) <= 2
  /\ colorOp.op = "hue" => CurrentHue = RoundDiv(sliderValue * 359, 100)

\* the picker initialized from a color of hue 203: the thumb stands at 57,
\* where round(57 * 3.59) is 205
C25_Witness ==
  /\ colorOp.op = "init"
  /\ CurrentHue = 203 /\ sliderValue = 57
  /\ RoundDiv(sliderValue * 359, 100) = 205

\* ============================================== accessibility properties
\* C26: for every thumb in every state aria-valuemin <= aria-valuenow <=
\* aria-valuemax, aria-valuenow is the thumb's current value, and
\* aria-valuemin / aria-valuemax are the lower / upper bound it may take.
C26_AriaValues ==
  \A i \in DOMAIN thumbSet :
    LET range == getAllowableThumbRange(thumbSet, i, thumbMode,
                                        sliderMin, sliderMax)
        aria == ThumbAttributes(thumbSet[i], range[1], range[2])
    IN  /\ aria.ariaValuemin <= aria.ariaValuenow
        /\ aria.ariaValuenow <= aria.ariaValuemax
        /\ aria.ariaValuenow = thumbSet[i]
        /\ aria.ariaValuemin = LowerBound(thumbSet, i)
        /\ aria.ariaValuemax = UpperBound(thumbSet, i)

\* ================================================= color input properties
\* the fields the color input shows for the current type
InputFields ==
  CASE inputType = "HEX" -> << dotColor.hex >>
    [] inputType = "HSL" -> << dotColor.hsl.h, dotColor.hsl.s, dotColor.hsl.l >>
    [] inputType = "RGB" -> << dotColor.rgb.r, dotColor.rgb.g, dotColor.rgb.b >>
    [] OTHER -> << >>

\* C27: the swap button cycles the color input type HEX -> HSL -> RGB ->
\* HEX, so that three swaps return to the starting type; a swap at NONE
\* leaves NONE, and NONE is never reached from HEX, HSL or RGB.
C27_InputTypeCycle ==
  /\ [](inputType \in InputTypes)
  /\ []((swaps % 3 = 0 /\ builderProps.defaultColorInputType # "unset") =>
          inputType = builderProps.defaultColorInputType)
  /\ [](inputType = "NONE" <=>
          builderProps.defaultColorInputType \in {"NONE", "unset"})
  /\ [][swaps' = swaps + 1 =>
          /\ inputType = "HEX" => inputType' = "HSL"
          /\ inputType = "HSL" => inputType' = "RGB"
          /\ inputType = "RGB" => inputType' = "HEX"
          /\ inputType = "NONE" => inputType' = "NONE"]_vars
  /\ [][swaps' = swaps => inputType' = inputType]_vars

\* three swaps from HEX, back at HEX, the input showing the six hex digits
C27_Witness ==
  /\ builderProps.defaultColorInputType = "HEX"
  /\ swaps = 3
  /\ inputType = "HEX"
  /\ Len(InputFields) = 1 /\ Len(InputFields[1]) = 6

====
